---- MODULE Spec2Model ----
(***************************************************************************)
(* Model of the api-gateway request-ingress core:                          *)
(*   - middleware/request_context.rs : IP resolver, request-id reconciler, *)
(*     device classifier, protocol resolver, context builder, forwarder    *)
(*   - main.rs / routes/health.rs    : lifecycle flag, shutdown_signal,    *)
(*     readiness probe                                                     *)
(* Header values are sequences of bytes (0..255); a Rust String / &str is  *)
(* the same sequence once HeaderValue::to_str has accepted it.             *)
(* Option<T> is a sequence of length 0 (None) or 1 (Some).                 *)
(***************************************************************************)
EXTENDS Integers, Sequences, FiniteSets, TLC

\* ------------------------------------------------------------------ bounds
\* longest X-Forwarded-For / X-Real-IP value drawn by InitIp
MaxLen == 2

\* most fragments a generated User-Agent is assembled from
MaxParts == 2

\* longest X-Forwarded-Proto value drawn by InitProto
MaxProtoLen == 3

\* longest X-Request-Id value drawn by the request-id callers
MaxIdLen == 2

\* number of extract_or_generate_request_id calls in one behaviour
MaxCalls == 2

\* number of distinct identifiers Uuid::new_v4 can draw from
NumUuids == 3

\* number of concurrent readiness-probe tasks
NumProbes == 2

\* number of interrupt / termination signals the environment delivers
MaxSignals == 2

\* number of request tasks the server runs concurrently
NumRequests == 2

\* number of distinct PrometheusHandle values a caller can hand over
NumHandles == 2

\* number of set_prometheus_handle / metrics_handler calls in one behaviour
MaxEvents == 4

\* longest generated path, counted after its leading "/"
MaxPathLen == 4

\* ------------------------------------------------------------- Option<T>
None == <<>>

Some(x) == <<x>>

Opt(S) == {None} \cup {Some(x) : x \in S}

\* all byte strings over alphabet A of length at most n
StrUpTo(A, n) == UNION {[1..k -> A] : k \in 0..n}

\* ------------------------------------------------------- header names
X_FORWARDED_FOR == "x-forwarded-for"

X_REAL_IP == "x-real-ip"

X_REQUEST_ID == "x-request-id"

X_FORWARDED_PROTO == "x-forwarded-proto"

X_FORWARDED_HOST == "x-forwarded-host"

X_DEVICE_TYPE == "x-device-type"

X_USER_AGENT == "x-user-agent"

X_ACCEPT_LANGUAGE == "x-accept-language"

X_GATEWAY_TIMESTAMP == "x-gateway-timestamp"

USER_AGENT == "user-agent"

ACCEPT_LANGUAGE == "accept-language"

HOST == "host"

HeaderNames ==
  {X_FORWARDED_FOR, X_REAL_IP, X_REQUEST_ID, X_FORWARDED_PROTO,
   X_FORWARDED_HOST, X_DEVICE_TYPE, X_USER_AGENT, X_ACCEPT_LANGUAGE,
   X_GATEWAY_TIMESTAMP, USER_AGENT, ACCEPT_LANGUAGE, HOST}

\* HeaderMap::new()
EmptyHeaderMap == [n \in HeaderNames |-> None]

\* ------------------------------------------------- bytes and strings
COMMA == 44

\* char::is_whitespace restricted to one-byte characters (str::trim)
is_whitespace(b) == b \in {9, 10, 11, 12, 13, 32}

\* http::header::value::is_visible_ascii, the test HeaderValue::to_str applies
is_visible_ascii(b) == (b >= 32 /\ b < 127) \/ b = 9

\* http::header::value::is_valid, the test HeaderValue::from_str applies
is_valid(b) == (b >= 32 /\ b # 127) \/ b = 9

\* HeaderValue::to_str : Ok(&str) iff every byte is visible ASCII
to_str(v) == IF \A i \in 1..Len(v) : is_visible_ascii(v[i]) THEN Some(v) ELSE None

\* HeaderValue::from_str : Ok(value) iff every byte is valid
from_str(s) == IF \A i \in 1..Len(s) : is_valid(s[i]) THEN Some(s) ELSE None

RECURSIVE trim_start(_)
trim_start(s) ==
  IF s = <<>> \/ ~is_whitespace(Head(s)) THEN s ELSE trim_start(Tail(s))

RECURSIVE trim_end(_)
trim_end(s) ==
  IF s = <<>> \/ ~is_whitespace(s[Len(s)]) THEN s
  ELSE trim_end(SubSeq(s, 1, Len(s) - 1))

\* str::trim
trim(s) == trim_end(trim_start(s))

\* xff_str.split(',').next() : the text before the first comma (always Some)
RECURSIVE split_first(_, _)
split_first(s, sep) ==
  IF s = <<>> \/ Head(s) = sep THEN <<>>
  ELSE <<Head(s)>> \o split_first(Tail(s), sep)

\* u8 / i64 Display : decimal digits of a natural number
RECURSIVE to_decimal(_)
to_decimal(n) ==
  IF n < 10 THEN <<48 + n>> ELSE to_decimal(n \div 10) \o <<48 + (n % 10)>>

\* Ipv4Addr Display : dotted decimal of the four octets
ip_to_string(ip) ==
  to_decimal(ip[1]) \o <<46>> \o to_decimal(ip[2]) \o <<46>> \o
  to_decimal(ip[3]) \o <<46>> \o to_decimal(ip[4])

\* SocketAddr Display : "ip:port"
addr_to_string(addr) == ip_to_string(addr.ip) \o <<58>> \o to_decimal(addr.port)

unknown == <<117, 110, 107, 110, 111, 119, 110>>  \* "unknown"

\* ------------------------------------------------------------------ state
VARIABLES
  headers,        \* inbound HeaderMap : header name -> Option<HeaderValue>
  connect_info,   \* Option<SocketAddr>
  user_agent,     \* Option<&str> handed to detect_device_type
  client_ip,      \* Option<String> : result of extract_client_ip once called
  device_type,    \* Option<DeviceType> : result of detect_device_type once called
  protocol,       \* Option<String> : result of extract_protocol once called
  request_id,     \* Option<String> : result of extract_or_generate_request_id
  issued,         \* identifiers Uuid::new_v4 has produced so far
  calls,          \* history of extract_or_generate_request_id calls
  context,        \* Option<RequestContext> : result of from_request
  forwarding_headers,  \* Option<HeaderMap> : result of to_forwarding_headers
  pc,             \* position of the caller
  is_shutting_down,  \* AppState.is_shutting_down (AtomicBool)
  sig_pc,         \* position of the shutdown_signal task
  signals,        \* number of interrupt / termination signals delivered
  elapsed,        \* seconds slept by shutdown_signal since the store
  probes,         \* readiness_probe invocations in flight, per task
  returned_503,   \* history: some readiness probe has returned 503
  writes,         \* history: stores performed on is_shutting_down
  inflight,       \* request tasks spawned by axum::serve, per task
  downstream,     \* Option<HeaderMap> : headers of the request given to next.run
  PROMETHEUS_HANDLE,  \* OnceCell<PrometheusHandle> : Option of the stored handle
  metrics_log,    \* history of set_prometheus_handle / metrics_handler calls
  path,           \* request path handed to normalize_path
  normalized,     \* Option<String> : normalize_path(path)
  renormalized    \* Option<String> : normalize_path applied to its own result

inVars == <<headers, connect_info, user_agent>>

outVars == <<client_ip, device_type, protocol, request_id>>

idVars == <<issued, calls>>

ctxVars == <<context, forwarding_headers>>

lifeVars == <<is_shutting_down, sig_pc, signals, elapsed, probes, returned_503, writes>>

mwVars == <<downstream>>

metricsVars == <<PROMETHEUS_HANDLE, metrics_log>>

pathVars == <<path, normalized, renormalized>>

serveVars == <<inflight>>

auxVars == <<mwVars, metricsVars, pathVars, serveVars>>

vars == <<inVars, outVars, idVars, ctxVars, pc, lifeVars, auxVars>>

NoResults ==
  /\ client_ip = None
  /\ device_type = None
  /\ protocol = None
  /\ request_id = None

NoIds == issued = {} /\ calls = <<>>

NoContext == context = None /\ forwarding_headers = None

RequestTasks == 1..NumRequests

\* a request task that has not been spawned
IdleRequest ==
  [pc |-> "idle", route |-> "", status |-> 0,
   accepted_in |-> "", finished_in |-> ""]

\* nothing handed downstream, OnceCell::new(), no path recorded, no request
NoAux ==
  /\ inflight = [t \in RequestTasks |-> IdleRequest]
  /\ downstream = None
  /\ PROMETHEUS_HANDLE = None
  /\ metrics_log = <<>>
  /\ path = <<>>
  /\ normalized = None
  /\ renormalized = None

\* AppConfig::load default for SHUTDOWN_TIMEOUT_SECS
shutdown_timeout_secs == 10

ProbeTasks == 1..NumProbes

\* a probe task that has not been invoked
IdleProbe ==
  [pc |-> "idle", seen |-> FALSE, status |-> 0,
   after_store |-> FALSE, after_503 |-> FALSE, answered_in |-> ""]

\* main: AtomicBool::new(false), shutdown_signal awaiting its select!
NoLifecycle ==
  /\ is_shutting_down = FALSE
  /\ sig_pc = "select"
  /\ signals = 0
  /\ elapsed = 0
  /\ probes = [p \in ProbeTasks |-> IdleProbe]
  /\ returned_503 = FALSE
  /\ writes = <<>>

\* ------------------------------------------------------------ IP resolver
xff_first_ip_NoEmptyCheck(hs) ==
  LET xff     == hs[X_FORWARDED_FOR]
      xff_str == IF xff # None THEN to_str(xff[1]) ELSE None
  IN  IF xff_str # None THEN Some(trim(split_first(xff_str[1], COMMA))) ELSE None

\* extract_client_ip, X-Forwarded-For block: Some(first element, trimmed) when
\* the header is present, decodes and that element is non-empty; else None
xff_first_ip(hs) ==
  LET xff     == hs[X_FORWARDED_FOR]
      xff_str == IF xff # None THEN to_str(xff[1]) ELSE None
      ip      == IF xff_str # None THEN trim(split_first(xff_str[1], COMMA)) ELSE <<>>
  IN  IF xff_str # None /\ ip # <<>> THEN Some(ip) ELSE None

real_ip_value_NoTrim(hs) ==
  LET real_ip == hs[X_REAL_IP]
      ip_str  == IF real_ip # None THEN to_str(real_ip[1]) ELSE None
  IN  IF ip_str # None /\ trim(ip_str[1]) # <<>> THEN Some(ip_str[1]) ELSE None

\* extract_client_ip, X-Real-IP block
real_ip_value(hs) ==
  LET real_ip == hs[X_REAL_IP]
      ip_str  == IF real_ip # None THEN to_str(real_ip[1]) ELSE None
      ip      == IF ip_str # None THEN trim(ip_str[1]) ELSE <<>>
  IN  IF ip_str # None /\ ip # <<>> THEN Some(ip) ELSE None

connection_ip_WithPort(ci) ==
  IF ci # None THEN addr_to_string(ci[1]) ELSE unknown

\* extract_client_ip, fallback: connect_info.map(|addr| addr.ip().to_string())
\*                              .unwrap_or_else(|| "unknown".to_string())
connection_ip(ci) ==
  IF ci # None THEN ip_to_string(ci[1].ip) ELSE unknown

extract_client_ip_RealIpFirst(hs, ci) ==
  IF real_ip_value(hs) # None THEN real_ip_value(hs)[1]
  ELSE IF xff_first_ip(hs) # None THEN xff_first_ip(hs)[1]
  ELSE connection_ip(ci)

\* Priority: X-Forwarded-For > X-Real-IP > Connection IP
extract_client_ip(hs, ci) ==
  IF xff_first_ip(hs) # None THEN xff_first_ip(hs)[1]
  ELSE IF real_ip_value(hs) # None THEN real_ip_value(hs)[1]
  ELSE connection_ip(ci)

\* inputs of the IP resolver
XffAlphabet == {32, 44, 49, 233}     \* ' '  ','  '1'  obs-text byte

RealIpAlphabet == {9, 53, 233}       \* tab  '5'  obs-text byte

PeerAddrs == {[ip |-> <<10, 0, 0, 1>>, port |-> 12345],
              [ip |-> <<192, 168, 1, 100>>, port |-> 80]}

InitIp ==
  /\ \E xff \in Opt(StrUpTo(XffAlphabet, MaxLen)),
        rip \in Opt(StrUpTo(RealIpAlphabet, MaxLen)) :
       headers = [EmptyHeaderMap EXCEPT ![X_FORWARDED_FOR] = xff, ![X_REAL_IP] = rip]
  /\ connect_info \in Opt(PeerAddrs)
  /\ user_agent = None
  /\ NoResults
  /\ NoIds
  /\ NoContext
  /\ NoLifecycle
  /\ NoAux
  /\ pc = "input"

CallExtractClientIp ==
  /\ pc = "input"
  /\ client_ip' = Some(extract_client_ip(headers, connect_info))
  /\ pc' = "done"
  /\ UNCHANGED <<inVars, device_type, protocol, request_id, idVars, ctxVars, lifeVars, auxVars>>

NextIp == CallExtractClientIp

SpecIp == InitIp /\ [][NextIp]_vars

\* -------------------------------------------------------- device classifier
\* str::contains : t occurs in s as a contiguous substring
contains(s, t) ==
  \E i \in 1..(Len(s) - Len(t) + 1) : SubSeq(s, i, i + Len(t) - 1) = t

\* char::to_ascii_lowercase
lower_byte(b) == IF b >= 65 /\ b <= 90 THEN b + 32 ELSE b

\* str::to_lowercase on ASCII text
to_lowercase(s) == [i \in 1..Len(s) |-> lower_byte(s[i])]

\* detect_device_type, bot check
BotTokens ==
  {<<98, 111, 116>>,  \* "bot"
   <<99, 114, 97, 119, 108, 101, 114>>,  \* "crawler"
   <<115, 112, 105, 100, 101, 114>>,  \* "spider"
   <<103, 111, 111, 103, 108, 101, 98, 111, 116>>,  \* "googlebot"
   <<98, 105, 110, 103, 98, 111, 116>>,  \* "bingbot"
   <<115, 108, 117, 114, 112>>,  \* "slurp"
   <<100, 117, 99, 107, 100, 117, 99, 107, 98, 111, 116>>,  \* "duckduckbot"
   <<98, 97, 105, 100, 117, 115, 112, 105, 100, 101, 114>>,  \* "baiduspider"
   <<121, 97, 110, 100, 101, 120, 98, 111, 116>>,  \* "yandexbot"
   <<102, 97, 99, 101, 98, 111, 111, 107, 101, 120, 116, 101, 114, 110, 97, 108, 104, 105, 116>>,  \* "facebookexternalhit"
   <<116, 119, 105, 116, 116, 101, 114, 98, 111, 116>>,  \* "twitterbot"
   <<108, 105, 110, 107, 101, 100, 105, 110, 98, 111, 116>>}  \* "linkedinbot"

\* detect_device_type, tablet check (besides android-without-mobile)
TabletTokens ==
  {<<105, 112, 97, 100>>,  \* "ipad"
   <<116, 97, 98, 108, 101, 116>>}  \* "tablet"

android_Misspelt == <<97, 110, 100, 114, 105, 111, 100>>  \* "andriod"

android == <<97, 110, 100, 114, 111, 105, 100>>  \* "android"

mobile == <<109, 111, 98, 105, 108, 101>>  \* "mobile"

\* detect_device_type, mobile check
MobileTokens ==
  {<<109, 111, 98, 105, 108, 101>>,  \* "mobile"
   <<105, 112, 104, 111, 110, 101>>,  \* "iphone"
   <<105, 112, 111, 100>>,  \* "ipod"
   <<97, 110, 100, 114, 111, 105, 100>>,  \* "android"
   <<98, 108, 97, 99, 107, 98, 101, 114, 114, 121>>,  \* "blackberry"
   <<119, 105, 110, 100, 111, 119, 115, 32, 112, 104, 111, 110, 101>>,  \* "windows phone"
   <<111, 112, 101, 114, 97, 32, 109, 105, 110, 105>>,  \* "opera mini"
   <<111, 112, 101, 114, 97, 32, 109, 111, 98, 105>>}  \* "opera mobi"

\* detect_device_type, browser check
DesktopTokens ==
  {<<109, 111, 122, 105, 108, 108, 97>>,  \* "mozilla"
   <<99, 104, 114, 111, 109, 101>>,  \* "chrome"
   <<115, 97, 102, 97, 114, 105>>,  \* "safari"
   <<102, 105, 114, 101, 102, 111, 120>>,  \* "firefox"
   <<101, 100, 103, 101>>,  \* "edge"
   <<111, 112, 101, 114, 97>>}  \* "opera"

contains_any(s, tokens) == \E t \in tokens : contains(s, t)

detect_device_type_MobileFirst(user) ==
  IF user = None THEN "Unknown"
  ELSE LET ua == to_lowercase(user[1])
       IN  IF contains_any(ua, BotTokens) THEN "Bot"
           ELSE IF contains_any(ua, MobileTokens) THEN "Mobile"
           ELSE IF \/ contains_any(ua, TabletTokens)
                   \/ (contains(ua, android) /\ ~contains(ua, mobile)) THEN "Tablet"
           ELSE IF contains_any(ua, DesktopTokens) THEN "Desktop"
           ELSE "Unknown"

\* fn detect_device_type(user_agent: Option<&str>) -> DeviceType
detect_device_type(user) ==
  IF user = None THEN "Unknown"
  ELSE LET ua == to_lowercase(user[1])
       IN  IF contains_any(ua, BotTokens) THEN "Bot"
           ELSE IF \/ contains_any(ua, TabletTokens)
                   \/ (contains(ua, android) /\ ~contains(ua, mobile)) THEN "Tablet"
           ELSE IF contains_any(ua, MobileTokens) THEN "Mobile"
           ELSE IF contains_any(ua, DesktopTokens) THEN "Desktop"
           ELSE "Unknown"

\* inputs of the device classifier: User-Agent strings assembled from product
\* tokens as browsers and crawlers spell them, and the documented examples
Fragments ==
  {<<98, 111, 116>>,  \* "bot"
   <<67, 114, 97, 119, 108, 101, 114>>,  \* "Crawler"
   <<115, 112, 105, 100, 101, 114>>,  \* "spider"
   <<71, 111, 111, 103, 108, 101, 98, 111, 116>>,  \* "Googlebot"
   <<98, 105, 110, 103, 98, 111, 116>>,  \* "bingbot"
   <<83, 108, 117, 114, 112>>,  \* "Slurp"
   <<68, 117, 99, 107, 68, 117, 99, 107, 66, 111, 116>>,  \* "DuckDuckBot"
   <<66, 97, 105, 100, 117, 115, 112, 105, 100, 101, 114>>,  \* "Baiduspider"
   <<89, 97, 110, 100, 101, 120, 66, 111, 116>>,  \* "YandexBot"
   <<102, 97, 99, 101, 98, 111, 111, 107, 101, 120, 116, 101, 114, 110, 97, 108, 104, 105, 116>>,  \* "facebookexternalhit"
   <<84, 119, 105, 116, 116, 101, 114, 98, 111, 116>>,  \* "Twitterbot"
   <<76, 105, 110, 107, 101, 100, 73, 110, 66, 111, 116>>,  \* "LinkedInBot"
   <<105, 80, 97, 100>>,  \* "iPad"
   <<84, 97, 98, 108, 101, 116>>,  \* "Tablet"
   <<65, 110, 100, 114, 111, 105, 100>>,  \* "Android"
   <<77, 111, 98, 105, 108, 101>>,  \* "Mobile"
   <<105, 80, 104, 111, 110, 101>>,  \* "iPhone"
   <<105, 80, 111, 100>>,  \* "iPod"
   <<66, 108, 97, 99, 107, 66, 101, 114, 114, 121>>,  \* "BlackBerry"
   <<87, 105, 110, 100, 111, 119, 115, 32, 80, 104, 111, 110, 101>>,  \* "Windows Phone"
   <<79, 112, 101, 114, 97, 32, 77, 105, 110, 105>>,  \* "Opera Mini"
   <<79, 112, 101, 114, 97, 32, 77, 111, 98, 105>>,  \* "Opera Mobi"
   <<77, 111, 122, 105, 108, 108, 97>>,  \* "Mozilla"
   <<67, 104, 114, 111, 109, 101>>,  \* "Chrome"
   <<83, 97, 102, 97, 114, 105>>,  \* "Safari"
   <<70, 105, 114, 101, 102, 111, 120>>,  \* "Firefox"
   <<69, 100, 103, 101>>,  \* "Edge"
   <<79, 112, 101, 114, 97>>,  \* "Opera"
   <<99, 117, 114, 108, 47, 56>>}  \* "curl/8"

\* "Googlebot/2.1 (+http://www.google.com/bot.html)"
UA_Googlebot ==
  <<71, 111, 111, 103, 108, 101, 98, 111, 116, 47, 50, 46, 49, 32, 40, 43, 104, 116, 116, 112, 58, 47, 47, 119, 119, 119, 46, 103, 111, 111, 103, 108, 101, 46, 99, 111, 109, 47, 98, 111, 116, 46, 104, 116, 109, 108, 41>>

\* "Mozilla/5.0 (iPad; CPU OS 14_0)"
UA_iPad ==
  <<77, 111, 122, 105, 108, 108, 97, 47, 53, 46, 48, 32, 40, 105, 80, 97, 100, 59, 32, 67, 80, 85, 32, 79, 83, 32, 49, 52, 95, 48, 41>>

\* "Mozilla/5.0 (Linux; Android 10; SM-G973F)"
UA_AndroidPhone ==
  <<77, 111, 122, 105, 108, 108, 97, 47, 53, 46, 48, 32, 40, 76, 105, 110, 117, 120, 59, 32, 65, 110, 100, 114, 111, 105, 100, 32, 49, 48, 59, 32, 83, 77, 45, 71, 57, 55, 51, 70, 41>>

\* "Mozilla/5.0 (Linux; Android 10; SM-T860)"
UA_AndroidTablet ==
  <<77, 111, 122, 105, 108, 108, 97, 47, 53, 46, 48, 32, 40, 76, 105, 110, 117, 120, 59, 32, 65, 110, 100, 114, 111, 105, 100, 32, 49, 48, 59, 32, 83, 77, 45, 84, 56, 54, 48, 41>>

\* "Mozilla/5.0 (Windows NT 10.0; Win64; x64) Chrome/91.0"
UA_WindowsChrome ==
  <<77, 111, 122, 105, 108, 108, 97, 47, 53, 46, 48, 32, 40, 87, 105, 110, 100, 111, 119, 115, 32, 78, 84, 32, 49, 48, 46, 48, 59, 32, 87, 105, 110, 54, 52, 59, 32, 120, 54, 52, 41, 32, 67, 104, 114, 111, 109, 101, 47, 57, 49, 46, 48>>

\* "Mozilla/5.0 (iPhone; CPU iPhone OS 14_0)"
UA_iPhone ==
  <<77, 111, 122, 105, 108, 108, 97, 47, 53, 46, 48, 32, 40, 105, 80, 104, 111, 110, 101, 59, 32, 67, 80, 85, 32, 105, 80, 104, 111, 110, 101, 32, 79, 83, 32, 49, 52, 95, 48, 41>>

\* "custom-client/1.0"
UA_CustomClient ==
  <<99, 117, 115, 116, 111, 109, 45, 99, 108, 105, 101, 110, 116, 47, 49, 46, 48>>

\* a crawler that presents itself as an Android browser:
\* "Mozilla/5.0 (Linux; Android 6.0.1; Nexus 5X) Mobile Safari/537.36 (compatible; Googlebot/2.1)"
UA_GooglebotSmartphone ==
  <<77, 111, 122, 105, 108, 108, 97, 47, 53, 46, 48, 32, 40, 76, 105, 110, 117, 120, 59, 32, 65, 110, 100, 114, 111, 105, 100, 32, 54, 46, 48, 46, 49, 59, 32, 78, 101, 120, 117, 115, 32, 53, 88, 41, 32, 77, 111, 98, 105, 108, 101, 32, 83, 97, 102, 97, 114, 105, 47, 53, 51, 55, 46, 51, 54, 32, 40, 99, 111, 109, 112, 97, 116, 105, 98, 108, 101, 59, 32, 71, 111, 111, 103, 108, 101, 98, 111, 116, 47, 50, 46, 49, 41>>

Fixtures ==
  {UA_Googlebot, UA_iPad, UA_AndroidPhone, UA_AndroidTablet, UA_WindowsChrome,
   UA_iPhone, UA_CustomClient, UA_GooglebotSmartphone}

\* concatenations of at most n fragments
RECURSIVE Concats(_)
Concats(n) ==
  IF n = 0 THEN {<<>>}
  ELSE Concats(n - 1) \cup {s \o f : s \in Concats(n - 1), f \in Fragments}

UserAgents == Opt(Concats(MaxParts) \cup Fixtures)

InitDevice ==
  /\ user_agent \in UserAgents
  /\ headers = EmptyHeaderMap
  /\ connect_info = None
  /\ NoResults
  /\ NoIds
  /\ NoContext
  /\ NoLifecycle
  /\ NoAux
  /\ pc = "input"

CallDetectDeviceType ==
  /\ pc = "input"
  /\ device_type' = Some(detect_device_type(user_agent))
  /\ pc' = "done"
  /\ UNCHANGED <<inVars, client_ip, protocol, request_id, idVars, ctxVars, lifeVars, auxVars>>

NextDevice == CallDetectDeviceType

SpecDevice == InitDevice /\ [][NextDevice]_vars

\* -------------------------------------------------------- protocol resolver
https == <<104, 116, 116, 112, 115>>  \* "https"

extract_protocol_KeepCase(hs) ==
  LET proto     == hs[X_FORWARDED_PROTO]
      proto_str == IF proto # None THEN to_str(proto[1]) ELSE None
  IN  IF proto_str # None THEN proto_str[1] ELSE https

\* fn extract_protocol(headers: &HeaderMap) -> String
extract_protocol(hs) ==
  LET proto     == hs[X_FORWARDED_PROTO]
      proto_str == IF proto # None THEN to_str(proto[1]) ELSE None
  IN  IF proto_str # None THEN to_lowercase(proto_str[1]) ELSE https

ProtoAlphabet == {72, 84, 112, 115, 233}   \* 'H' 'T' 'p' 's' obs-text byte

InitProto ==
  /\ \E proto \in Opt(StrUpTo(ProtoAlphabet, MaxProtoLen)) :
       headers = [EmptyHeaderMap EXCEPT ![X_FORWARDED_PROTO] = proto]
  /\ connect_info = None
  /\ user_agent = None
  /\ NoResults
  /\ NoIds
  /\ NoContext
  /\ NoLifecycle
  /\ NoAux
  /\ pc = "input"

CallExtractProtocol ==
  /\ pc = "input"
  /\ protocol' = Some(extract_protocol(headers))
  /\ pc' = "done"
  /\ UNCHANGED <<inVars, client_ip, device_type, request_id, idVars, ctxVars, lifeVars, auxVars>>

NextProto == CallExtractProtocol

SpecProto == InitProto /\ [][NextProto]_vars

\* ------------------------------------------------------ request-id reconciler
\* Uuid::to_string of the n-th identifier: 8-4-4-4-12 lowercase hex digits,
\* version nibble 4, variant nibble 8
uuid_to_string(n) ==
  [i \in 1..36 |->
     IF i \in {9, 14, 19, 24} THEN 45
     ELSE IF i = 15 THEN 52
     ELSE IF i = 20 THEN 56
     ELSE IF i = 36 THEN (IF n % 16 < 10 THEN 48 + (n % 16) ELSE 87 + (n % 16))
     ELSE 48]

\* the identifiers Uuid::new_v4 can return
Uuids == 1..NumUuids

extract_or_generate_request_id_NoEmptyCheck(hs, fresh) ==
  LET existing_id == hs[X_REQUEST_ID]
      id_str      == IF existing_id # None THEN to_str(existing_id[1]) ELSE None
  IN  IF id_str # None THEN id_str[1] ELSE uuid_to_string(fresh)

\* fn extract_or_generate_request_id(headers: &HeaderMap) -> String
\* fresh is the value Uuid::new_v4() returns if it is called
extract_or_generate_request_id(hs, fresh) ==
  LET existing_id == hs[X_REQUEST_ID]
      id_str      == IF existing_id # None THEN to_str(existing_id[1]) ELSE None
  IN  IF id_str # None /\ id_str[1] # <<>> THEN id_str[1]
      ELSE uuid_to_string(fresh)

\* whether the call reaches Uuid::new_v4()
generates_request_id(hs) ==
  LET existing_id == hs[X_REQUEST_ID]
      id_str      == IF existing_id # None THEN to_str(existing_id[1]) ELSE None
  IN  ~(id_str # None /\ id_str[1] # <<>>)

IdAlphabet == {114, 233}   \* 'r' obs-text byte

RequestIdHeaders ==
  {[EmptyHeaderMap EXCEPT ![X_REQUEST_ID] = v] :
     v \in Opt(StrUpTo(IdAlphabet, MaxIdLen))}

InitReqId ==
  /\ headers \in RequestIdHeaders
  /\ connect_info = None
  /\ user_agent = None
  /\ NoResults
  /\ NoIds
  /\ NoContext
  /\ NoLifecycle
  /\ NoAux
  /\ pc = "input"

\* one call; Uuid::new_v4 draws an identifier it has not produced before
CallExtractOrGenerateRequestId ==
  /\ pc = "input"
  /\ \E fresh \in Uuids \ issued :
       LET id == extract_or_generate_request_id(headers, fresh)
       IN  /\ request_id' = Some(id)
           /\ issued' = IF generates_request_id(headers)
                        THEN issued \cup {fresh} ELSE issued
           /\ calls' = Append(calls, [header |-> headers[X_REQUEST_ID], id |-> id])
  /\ pc' = "done"
  /\ UNCHANGED <<inVars, client_ip, device_type, protocol, ctxVars, lifeVars, auxVars>>

\* the next request arrives with its own headers
NextRequestId ==
  /\ pc = "done"
  /\ Len(calls) < MaxCalls
  /\ headers' \in RequestIdHeaders
  /\ pc' = "input"
  /\ UNCHANGED <<connect_info, user_agent, outVars, idVars, ctxVars, lifeVars, auxVars>>

NextReqId == CallExtractOrGenerateRequestId \/ NextRequestId

SpecReqId == InitReqId /\ [][NextReqId]_vars

\* ------------------------------------------- context builder and forwarder
\* DeviceType::as_str
as_str(d) ==
  CASE d = "Desktop" -> <<100, 101, 115, 107, 116, 111, 112>>
    [] d = "Mobile"  -> <<109, 111, 98, 105, 108, 101>>
    [] d = "Tablet"  -> <<116, 97, 98, 108, 101, 116>>
    [] d = "Bot"     -> <<98, 111, 116>>
    [] d = "Unknown" -> <<117, 110, 107, 110, 111, 119, 110>>

\* fn extract_header_string(headers, name) -> Option<String>
extract_header_string(hs, name) ==
  IF hs[name] # None THEN to_str(hs[name][1]) ELSE None

\* RequestContext::from_request; fresh is what Uuid::new_v4() returns if
\* called, now_ms is chrono::Utc::now().timestamp_millis()
from_request(hs, ci, fresh, now_ms) ==
  LET ua == extract_header_string(hs, USER_AGENT)
  IN  [client_ip       |-> extract_client_ip(hs, ci),
       request_id      |-> extract_or_generate_request_id(hs, fresh),
       user_agent      |-> ua,
       device_type     |-> detect_device_type(ua),
       accept_language |-> extract_header_string(hs, ACCEPT_LANGUAGE),
       host            |-> extract_header_string(hs, HOST),
       protocol        |-> extract_protocol(hs),
       timestamp       |-> now_ms]

\* HeaderMap::insert : the name now carries exactly this value
insert(h, name, value) == [h EXCEPT ![name] = Some(value)]

insert_if_ok_Aborts(h, name, s) ==
  IF from_str(s) # None THEN insert(h, name, from_str(s)[1]) ELSE EmptyHeaderMap

\* if let Ok(value) = HeaderValue::from_str(s) { headers.insert(name, value); }
insert_if_ok(h, name, s) ==
  IF from_str(s) # None THEN insert(h, name, from_str(s)[1]) ELSE h

\* if let Some(ref s) = field { if let Ok(value) = ... { insert } }
insert_if_some(h, name, field) ==
  IF field # None THEN insert_if_ok(h, name, field[1]) ELSE h

to_forwarding_headers_SkipEmptyProtocol(ctx) ==
  LET h0 == EmptyHeaderMap
      h1 == insert_if_ok(insert_if_ok(h0, X_FORWARDED_FOR, ctx.client_ip),
                         X_REAL_IP, ctx.client_ip)
      h2 == insert_if_ok(h1, X_REQUEST_ID, ctx.request_id)
      h3 == insert_if_ok(h2, X_DEVICE_TYPE, as_str(ctx.device_type))
      h4 == insert_if_some(h3, X_USER_AGENT, ctx.user_agent)
      h5 == insert_if_some(h4, X_ACCEPT_LANGUAGE, ctx.accept_language)
      h6 == insert_if_some(h5, X_FORWARDED_HOST, ctx.host)
      h7 == IF ctx.protocol # <<>>
            THEN insert_if_ok(h6, X_FORWARDED_PROTO, ctx.protocol) ELSE h6
  IN  insert_if_ok(h7, X_GATEWAY_TIMESTAMP, to_decimal(ctx.timestamp))

\* RequestContext::to_forwarding_headers
to_forwarding_headers(ctx) ==
  LET h0 == EmptyHeaderMap
      h1 == insert_if_ok(insert_if_ok(h0, X_FORWARDED_FOR, ctx.client_ip),
                         X_REAL_IP, ctx.client_ip)
      h2 == insert_if_ok(h1, X_REQUEST_ID, ctx.request_id)
      h3 == insert_if_ok(h2, X_DEVICE_TYPE, as_str(ctx.device_type))
      h4 == insert_if_some(h3, X_USER_AGENT, ctx.user_agent)
      h5 == insert_if_some(h4, X_ACCEPT_LANGUAGE, ctx.accept_language)
      h6 == insert_if_some(h5, X_FORWARDED_HOST, ctx.host)
      h7 == insert_if_ok(h6, X_FORWARDED_PROTO, ctx.protocol)
  IN  insert_if_ok(h7, X_GATEWAY_TIMESTAMP, to_decimal(ctx.timestamp))

\* inputs of the builder: per header, absent, empty, a typical value, or a
\* value holding a byte outside visible ASCII
OBS == <<233>>

CtxXff == {None, Some(<<32, 49, 44, 50>>), Some(<<44>>), Some(OBS)}

CtxRealIp == {None, Some(<<53>>)}

CtxRequestId == {None, Some(<<>>), Some(<<114, 49>>), Some(OBS)}

CtxUserAgent == {None, Some(<<>>), Some(UA_iPhone), Some(OBS)}

CtxAcceptLanguage == {None, Some(<<101, 110>>), Some(OBS)}

CtxHost == {None, Some(<<104, 46, 105, 111>>), Some(OBS)}

CtxProto == {None, Some(<<>>), Some(<<72, 84, 84, 80>>), Some(OBS)}

\* values chrono::Utc::now().timestamp_millis() returns
Timestamps == {0, 1234567890}

InitCtx ==
  /\ \E xff \in CtxXff, rip \in CtxRealIp, rid \in CtxRequestId,
        ua \in CtxUserAgent, lang \in CtxAcceptLanguage, host \in CtxHost,
        proto \in CtxProto :
       headers = [EmptyHeaderMap EXCEPT
                    ![X_FORWARDED_FOR] = xff, ![X_REAL_IP] = rip,
                    ![X_REQUEST_ID] = rid, ![USER_AGENT] = ua,
                    ![ACCEPT_LANGUAGE] = lang, ![HOST] = host,
                    ![X_FORWARDED_PROTO] = proto]
  /\ connect_info \in Opt({[ip |-> <<10, 0, 0, 1>>, port |-> 12345]})
  /\ user_agent = None
  /\ NoResults
  /\ NoIds
  /\ NoContext
  /\ NoLifecycle
  /\ NoAux
  /\ pc = "input"

FromRequest ==
  /\ pc = "input"
  /\ \E fresh \in Uuids \ issued, now_ms \in Timestamps :
       /\ context' = Some(from_request(headers, connect_info, fresh, now_ms))
       /\ issued' = IF generates_request_id(headers)
                    THEN issued \cup {fresh} ELSE issued
  /\ pc' = "built"
  /\ UNCHANGED <<inVars, outVars, calls, forwarding_headers, lifeVars, auxVars>>

ToForwardingHeaders ==
  /\ pc = "built"
  /\ forwarding_headers' = Some(to_forwarding_headers(context[1]))
  /\ pc' = "forwarded"
  /\ UNCHANGED <<inVars, outVars, idVars, context, lifeVars, auxVars>>

NextCtx == FromRequest \/ ToForwardingHeaders

SpecCtx == InitCtx /\ [][NextCtx]_vars

\* RequestContext values built by any caller (the fields are pub): Strings
\* that hold a control character, DEL or non-ASCII text as well as plain ones
CTRL == <<97, 1>>        \* "a\x01"

FwdClientIps == {<<49>>, CTRL, <<195, 169>>}    \* "1", control, "e-acute"

FwdRequestIds == {<<114, 49>>, <<10>>}          \* "r1", "\n"

FwdOptional == {None, Some(<<97>>), Some(CTRL)}

FwdProtocols == {<<104, 116, 116, 112>>, <<127>>}   \* "http", DEL

FwdContexts ==
  [client_ip : FwdClientIps, request_id : FwdRequestIds,
   user_agent : FwdOptional, device_type : {"Mobile", "Unknown"},
   accept_language : FwdOptional, host : FwdOptional,
   protocol : FwdProtocols, timestamp : Timestamps]

InitFwd ==
  /\ headers = EmptyHeaderMap
  /\ connect_info = None
  /\ user_agent = None
  /\ NoResults
  /\ NoIds
  /\ context \in {Some(ctx) : ctx \in FwdContexts}
  /\ forwarding_headers = None
  /\ NoLifecycle
  /\ NoAux
  /\ pc = "built"

NextFwd == ToForwardingHeaders

SpecFwd == InitFwd /\ [][NextFwd]_vars

\* ------------------------------------------------ request_context_middleware
\* inbound requests of the middleware: a header name may carry several values
\* (HeaderMap::get reads the first), and a caller may send the names the
\* gateway itself produces
SPOOF == <<115, 112, 111, 111, 102>>  \* "spoof"

MwXff == {<<>>, <<<<49>>>>, <<<<49>>, <<50>>>>}

MwRequestId == {<<>>, <<<<114, 49>>>>, <<<<114, 49>>, <<114, 50>>>>}

MwUserAgent == {<<>>, <<UA_iPhone>>, <<OBS>>}

MwOptional == {<<>>, <<<<101, 110>>>>}

MwDeviceType == {<<>>, <<as_str("Bot")>>, <<as_str("Bot"), SPOOF>>}

MwSpoofed == {<<>>, <<SPOOF>>}

InitMw ==
  /\ \E xff \in MwXff, rip \in MwOptional, rid \in MwRequestId,
        ua \in MwUserAgent, lang \in MwOptional, host \in MwOptional,
        proto \in MwOptional, xdev \in MwDeviceType, xua \in MwSpoofed,
        xlang \in MwSpoofed, xhost \in MwSpoofed, xts \in MwSpoofed :
       headers = [EmptyHeaderMap EXCEPT
                    ![X_FORWARDED_FOR] = xff, ![X_REAL_IP] = rip,
                    ![X_REQUEST_ID] = rid, ![USER_AGENT] = ua,
                    ![ACCEPT_LANGUAGE] = lang, ![HOST] = host,
                    ![X_FORWARDED_PROTO] = proto, ![X_DEVICE_TYPE] = xdev,
                    ![X_USER_AGENT] = xua, ![X_ACCEPT_LANGUAGE] = xlang,
                    ![X_FORWARDED_HOST] = xhost, ![X_GATEWAY_TIMESTAMP] = xts]
  /\ connect_info = Some([ip |-> <<10, 0, 0, 1>>, port |-> 12345])
  /\ user_agent = None
  /\ NoResults
  /\ NoIds
  /\ NoContext
  /\ NoLifecycle
  /\ NoAux
  /\ pc = "input"

add_forwarding_headers_Append(req, fwd) ==
  [n \in HeaderNames |-> req[n] \o fwd[n]]

\* for (key, value) in forwarding_headers.iter() {
\*     request.headers_mut().insert(key.clone(), value.clone()); }
add_forwarding_headers(req, fwd) ==
  [n \in HeaderNames |-> IF fwd[n] # None THEN insert(req, n, fwd[n][1])[n] ELSE req[n]]

\* request_context_middleware up to next.run(request)
RequestContextMiddleware ==
  /\ pc = "input"
  /\ connect_info # None
  /\ \E fresh \in Uuids \ issued, now_ms \in Timestamps :
       /\ context' = Some(from_request(headers, Some(connect_info[1]), fresh, now_ms))
       /\ issued' = IF generates_request_id(headers)
                    THEN issued \cup {fresh} ELSE issued
  /\ forwarding_headers' = Some(to_forwarding_headers(context'[1]))
  /\ downstream' = Some(add_forwarding_headers(headers, forwarding_headers'[1]))
  /\ pc' = "next"
  /\ UNCHANGED <<inVars, outVars, calls, lifeVars, metricsVars, pathVars, serveVars>>

NextMw == RequestContextMiddleware

SpecMw == InitMw /\ [][NextMw]_vars

\* ------------------------------------------------------------ lifecycle
reqVars == <<inVars, outVars, idVars, ctxVars, pc, auxVars>>

InitLife ==
  /\ headers = EmptyHeaderMap
  /\ connect_info = None
  /\ user_agent = None
  /\ NoResults
  /\ NoIds
  /\ NoContext
  /\ NoLifecycle
  /\ NoAux
  /\ pc = "input"

CtrlC_Restarts ==
  /\ signals < MaxSignals
  /\ signals' = signals + 1
  /\ sig_pc' = "signalled"
  /\ UNCHANGED <<is_shutting_down, elapsed, probes, returned_503, writes, reqVars>>

\* an interrupt (Ctrl+C) is delivered; the select! completes on its first one
CtrlC ==
  /\ signals < MaxSignals
  /\ signals' = signals + 1
  /\ sig_pc' = IF sig_pc = "select" THEN "signalled" ELSE sig_pc
  /\ UNCHANGED <<is_shutting_down, elapsed, probes, returned_503, writes, reqVars>>

\* a SIGTERM is delivered
Terminate ==
  /\ signals < MaxSignals
  /\ signals' = signals + 1
  /\ sig_pc' = IF sig_pc = "select" THEN "signalled" ELSE sig_pc
  /\ UNCHANGED <<is_shutting_down, elapsed, probes, returned_503, writes, reqVars>>

StoreFlag_SleepFirst ==
  /\ sig_pc = "signalled"
  /\ sig_pc' = "sleeping"
  /\ elapsed' = 0
  /\ UNCHANGED <<is_shutting_down, writes, signals, probes, returned_503, reqVars>>

\* state.is_shutting_down.store(true, SeqCst), then the sleep starts
StoreFlag ==
  /\ sig_pc = "signalled"
  /\ is_shutting_down' = TRUE
  /\ sig_pc' = "sleeping"
  /\ elapsed' = 0
  /\ writes' = Append(writes, [writer |-> "shutdown_signal", value |-> TRUE])
  /\ UNCHANGED <<signals, probes, returned_503, reqVars>>

\* one second of tokio::time::sleep passes
Tick ==
  /\ sig_pc = "sleeping"
  /\ elapsed < shutdown_timeout_secs
  /\ elapsed' = elapsed + 1
  /\ UNCHANGED <<is_shutting_down, sig_pc, signals, probes, returned_503, writes, reqVars>>

SleepDone_ClearsFlag ==
  /\ sig_pc = "sleeping"
  /\ elapsed = shutdown_timeout_secs
  /\ sig_pc' = "returned"
  /\ is_shutting_down' = FALSE
  /\ writes' = Append(writes, [writer |-> "shutdown_signal", value |-> FALSE])
  /\ UNCHANGED <<signals, elapsed, probes, returned_503, reqVars>>

\* the sleep is over: shutdown_signal returns and the server is told to stop
SleepDone ==
  /\ sig_pc = "sleeping"
  /\ elapsed = shutdown_timeout_secs
  /\ sig_pc' = "returned"
  /\ UNCHANGED <<is_shutting_down, signals, elapsed, probes, returned_503, writes, reqVars>>

readiness_probe_AlwaysOk(flag) == 200

\* readiness_probe: the status chosen from the loaded flag
readiness_probe(flag) == IF flag THEN 503 ELSE 200

\* a readiness probe is invoked and loads the flag (SeqCst)
ProbeLoad(p) ==
  /\ probes[p].pc \in {"idle", "responded"}
  /\ probes' = [probes EXCEPT ![p] =
                  [pc |-> "loaded", seen |-> is_shutting_down, status |-> 0,
                   after_store |-> sig_pc \in {"sleeping", "returned"},
                   after_503 |-> returned_503, answered_in |-> ""]]
  /\ UNCHANGED <<is_shutting_down, sig_pc, signals, elapsed, returned_503, writes, reqVars>>

\* the probe returns its response
ProbeRespond(p) ==
  /\ probes[p].pc = "loaded"
  /\ LET status == readiness_probe(probes[p].seen)
     IN  /\ probes' = [probes EXCEPT ![p].pc = "responded", ![p].status = status,
                                     ![p].answered_in = sig_pc]
         /\ returned_503' = (returned_503 \/ status = 503)
  /\ UNCHANGED <<is_shutting_down, sig_pc, signals, elapsed, writes, reqVars>>

NextLife ==
  \/ CtrlC
  \/ Terminate
  \/ StoreFlag
  \/ Tick
  \/ SleepDone
  \/ \E p \in ProbeTasks : ProbeLoad(p)
  \/ \E p \in ProbeTasks : ProbeRespond(p)

SpecLife == InitLife /\ [][NextLife]_vars

\* ------------------------------------------------------- request serving
\* the paths routes::health::router registers
HealthRoutes == {"/health", "/health/live", "/health/ready"}

\* health_check: StatusCode::OK, whatever the state
health_check == 200

\* liveness_probe: StatusCode::OK, whatever the state
liveness_probe == 200

route_status_DrainsAll(route, flag) == IF flag THEN 503 ELSE 200

\* the status the handler registered for the route returns; only
\* readiness_probe takes State(state) and loads the flag
route_status(route, flag) ==
  CASE route = "/health"       -> health_check
    [] route = "/health/live"  -> liveness_probe
    [] route = "/health/ready" -> readiness_probe(flag)

\* the lifecycle state as the process sees it: serving until the store,
\* draining while shutdown_signal sleeps, stopping once it has returned
lifecycle_state ==
  CASE sig_pc \in {"select", "signalled"} -> "serving"
    [] sig_pc = "sleeping"                -> "draining"
    [] sig_pc = "returned"                -> "stopping"

\* axum::serve accepts a connection and spawns the handler of its route; it
\* stops accepting once the future given to with_graceful_shutdown completes
Accept(t) ==
  /\ inflight[t].pc = "idle"
  /\ sig_pc # "returned"
  /\ \E route \in HealthRoutes :
       inflight' = [inflight EXCEPT ![t] =
                      [pc |-> "running", route |-> route, status |-> 0,
                       accepted_in |-> lifecycle_state, finished_in |-> ""]]
  /\ UNCHANGED <<lifeVars, inVars, outVars, idVars, ctxVars, pc,
                 mwVars, metricsVars, pathVars>>

Finish_AbortsWhenDraining(t) ==
  /\ inflight[t].pc = "running"
  /\ inflight' = [inflight EXCEPT
                    ![t].pc = "done",
                    ![t].status = IF is_shutting_down THEN 503
                                  ELSE route_status(inflight[t].route, FALSE),
                    ![t].finished_in = lifecycle_state]
  /\ UNCHANGED <<lifeVars, inVars, outVars, idVars, ctxVars, pc,
                 mwVars, metricsVars, pathVars>>

\* the handler runs to its response; connections accepted before the server
\* was told to stop are served to completion
Finish(t) ==
  /\ inflight[t].pc = "running"
  /\ inflight' = [inflight EXCEPT
                    ![t].pc = "done",
                    ![t].status = route_status(inflight[t].route, is_shutting_down),
                    ![t].finished_in = lifecycle_state]
  /\ UNCHANGED <<lifeVars, inVars, outVars, idVars, ctxVars, pc,
                 mwVars, metricsVars, pathVars>>

NextServe ==
  \/ CtrlC
  \/ Terminate
  \/ StoreFlag
  \/ Tick
  \/ SleepDone
  \/ \E t \in RequestTasks : Accept(t)
  \/ \E t \in RequestTasks : Finish(t)

SpecServe == InitLife /\ [][NextServe]_vars

\* ------------------------------------------ properties of the IP resolver
\* r is s with its leading and trailing whitespace removed
IsTrimOf(s, r) ==
  \E a \in 1..(Len(s) + 1), b \in 0..Len(s) :
    /\ a <= b + 1
    /\ r = SubSeq(s, a, b)
    /\ \A i \in 1..(a - 1) : is_whitespace(s[i])
    /\ \A i \in (b + 1)..Len(s) : is_whitespace(s[i])
    /\ a <= b => (~is_whitespace(s[a]) /\ ~is_whitespace(s[b]))

\* the first element of a comma-separated list
FirstElement(v) ==
  LET n == CHOOSE k \in 0..Len(v) :
             /\ \A i \in 1..k : v[i] # COMMA
             /\ k = Len(v) \/ v[k + 1] = COMMA
  IN  SubSeq(v, 1, n)

Decodable(v) == \A i \in 1..Len(v) : is_visible_ascii(v[i])

XffIn == headers[X_FORWARDED_FOR]

RealIpIn == headers[X_REAL_IP]

\* C1 as stated: whenever X-Forwarded-For is present and non-empty, the
\* resolved client IP is its first comma-separated element, trimmed, whatever
\* X-Real-IP and the peer address are.
C1_XffAlwaysWins ==
  (pc = "done" /\ XffIn # None /\ XffIn[1] # <<>>)
    => IsTrimOf(FirstElement(XffIn[1]), client_ip[1])

\* C1 amended: whenever X-Forwarded-For is present, consists of visible ASCII
\* only and its first comma-separated element is non-empty after trimming, the
\* resolved client IP is that element, trimmed, whatever X-Real-IP and the
\* peer address are.
C1_XffFirstElement ==
  (pc = "done" /\ XffIn # None /\ Decodable(XffIn[1])
     /\ ~IsTrimOf(FirstElement(XffIn[1]), <<>>))
    => IsTrimOf(FirstElement(XffIn[1]), client_ip[1])

C1_Witness ==
  /\ pc = "done"
  /\ XffIn # None /\ Decodable(XffIn[1])
  /\ \E i \in 1..Len(XffIn[1]) : XffIn[1][i] = COMMA
  /\ real_ip_value(headers) # None
  /\ connect_info # None
  /\ client_ip = Some(<<49>>)

\* C9 as stated: without X-Forwarded-For, an X-Real-IP that is non-empty after
\* trimming is the resolved client IP, trimmed, with or without a peer address.
C9_RealIpAlwaysUsed ==
  (pc = "done" /\ XffIn = None /\ RealIpIn # None /\ ~IsTrimOf(RealIpIn[1], <<>>))
    => IsTrimOf(RealIpIn[1], client_ip[1])

\* C9 amended: without X-Forwarded-For, an X-Real-IP that consists of visible
\* ASCII only and is non-empty after trimming is the resolved client IP,
\* trimmed, with or without a peer address.
C9_RealIpUsed ==
  (pc = "done" /\ XffIn = None /\ RealIpIn # None /\ Decodable(RealIpIn[1])
     /\ ~IsTrimOf(RealIpIn[1], <<>>))
    => IsTrimOf(RealIpIn[1], client_ip[1])

C9_Witness ==
  /\ pc = "done"
  /\ XffIn = None
  /\ RealIpIn # None /\ Len(RealIpIn[1]) > 1 /\ is_whitespace(RealIpIn[1][1])
  /\ connect_info # None
  /\ client_ip = Some(<<53>>)

\* C10: without X-Forwarded-For and X-Real-IP the resolved client IP is the
\* peer address's text with the ":port" suffix removed when a peer address is
\* supplied, and the literal "unknown" otherwise.
C10_PeerOrUnknown ==
  (pc = "done" /\ XffIn = None /\ RealIpIn = None)
    => IF connect_info # None
       THEN /\ client_ip[1] \o <<58>> \o to_decimal(connect_info[1].port)
                 = addr_to_string(connect_info[1])
            /\ \A i \in 1..Len(client_ip[1]) : client_ip[1][i] # 58
       ELSE client_ip = Some(<<117, 110, 107, 110, 111, 119, 110>>)

C10_Witness ==
  /\ pc = "done" /\ XffIn = None /\ RealIpIn = None
  /\ connect_info = Some([ip |-> <<10, 0, 0, 1>>, port |-> 12345])
  /\ client_ip = Some(<<49, 48, 46, 48, 46, 48, 46, 49>>)

\* r is the peer address's IP text when a peer address was supplied, and
\* "unknown" otherwise
PeerOrUnknown(r) ==
  IF connect_info # None
  THEN r \o <<58>> \o to_decimal(connect_info[1].port) = addr_to_string(connect_info[1])
  ELSE r = <<117, 110, 107, 110, 111, 119, 110>>

\* C16: the resolved client IP is never the empty string; an X-Forwarded-For
\* whose first comma-separated element is empty or whitespace-only is passed
\* over for X-Real-IP (then the peer address, then "unknown"), and a
\* whitespace-only X-Real-IP is passed over for the peer address or "unknown".
C16_NonEmptyFallsThrough ==
  pc = "done" =>
    /\ client_ip # None
    /\ client_ip[1] # <<>>
    /\ (XffIn # None /\ IsTrimOf(FirstElement(XffIn[1]), <<>>)) =>
         IF RealIpIn # None /\ Decodable(RealIpIn[1]) /\ ~IsTrimOf(RealIpIn[1], <<>>)
         THEN IsTrimOf(RealIpIn[1], client_ip[1])
         ELSE PeerOrUnknown(client_ip[1])
    /\ (XffIn = None /\ RealIpIn # None /\ IsTrimOf(RealIpIn[1], <<>>)) =>
         PeerOrUnknown(client_ip[1])

C16_Witness ==
  /\ pc = "done"
  /\ XffIn = Some(<<44, 49>>)      \* ",1"
  /\ RealIpIn = Some(<<9>>)        \* a tab
  /\ connect_info = Some([ip |-> <<192, 168, 1, 100>>, port |-> 80])
  /\ client_ip = Some(<<49, 57, 50, 46, 49, 54, 56, 46, 49, 46, 49, 48, 48>>)


\* ------------------------------------ properties of the device classifier
\* token tok (lowercase) occurs in s when letter case is ignored
HasToken(s, tok) ==
  \E i \in 1..(Len(s) - Len(tok) + 1) :
    \A j \in 1..Len(tok) :
      \/ s[i + j - 1] = tok[j]
      \/ (s[i + j - 1] \in 65..90 /\ s[i + j - 1] + 32 = tok[j])

\* the documented rule table: bot tokens
RuleBot ==
  {<<98, 111, 116>>,  \* "bot"
   <<99, 114, 97, 119, 108, 101, 114>>,  \* "crawler"
   <<115, 112, 105, 100, 101, 114>>,  \* "spider"
   <<103, 111, 111, 103, 108, 101, 98, 111, 116>>,  \* "googlebot"
   <<98, 105, 110, 103, 98, 111, 116>>,  \* "bingbot"
   <<115, 108, 117, 114, 112>>,  \* "slurp"
   <<100, 117, 99, 107, 100, 117, 99, 107, 98, 111, 116>>,  \* "duckduckbot"
   <<98, 97, 105, 100, 117, 115, 112, 105, 100, 101, 114>>,  \* "baiduspider"
   <<121, 97, 110, 100, 101, 120, 98, 111, 116>>,  \* "yandexbot"
   <<102, 97, 99, 101, 98, 111, 111, 107, 101, 120, 116, 101, 114, 110, 97, 108, 104, 105, 116>>,  \* "facebookexternalhit"
   <<116, 119, 105, 116, 116, 101, 114, 98, 111, 116>>,  \* "twitterbot"
   <<108, 105, 110, 107, 101, 100, 105, 110, 98, 111, 116>>}  \* "linkedinbot"

\* the documented rule table: mobile tokens
RuleMobile ==
  {<<109, 111, 98, 105, 108, 101>>,  \* "mobile"
   <<105, 112, 104, 111, 110, 101>>,  \* "iphone"
   <<105, 112, 111, 100>>,  \* "ipod"
   <<97, 110, 100, 114, 111, 105, 100>>,  \* "android"
   <<98, 108, 97, 99, 107, 98, 101, 114, 114, 121>>,  \* "blackberry"
   <<119, 105, 110, 100, 111, 119, 115, 32, 112, 104, 111, 110, 101>>,  \* "windows phone"
   <<111, 112, 101, 114, 97, 32, 109, 105, 110, 105>>,  \* "opera mini"
   <<111, 112, 101, 114, 97, 32, 109, 111, 98, 105>>}  \* "opera mobi"

\* the documented rule table: generic browser tokens
RuleBrowser ==
  {<<109, 111, 122, 105, 108, 108, 97>>,  \* "mozilla"
   <<99, 104, 114, 111, 109, 101>>,  \* "chrome"
   <<115, 97, 102, 97, 114, 105>>,  \* "safari"
   <<102, 105, 114, 101, 102, 111, 120>>,  \* "firefox"
   <<101, 100, 103, 101>>,  \* "edge"
   <<111, 112, 101, 114, 97>>}  \* "opera"

Tok_ipad == <<105, 112, 97, 100>>  \* "ipad"

Tok_tablet == <<116, 97, 98, 108, 101, 116>>  \* "tablet"

Tok_android == <<97, 110, 100, 114, 111, 105, 100>>  \* "android"

Tok_mobile == <<109, 111, 98, 105, 108, 101>>  \* "mobile"

\* rule k of the ordered table bot > tablet > mobile > desktop > unknown
RuleMatches(k, s) ==
  CASE k = 1 -> \E t \in RuleBot : HasToken(s, t)
    [] k = 2 -> \/ HasToken(s, Tok_ipad)
                \/ HasToken(s, Tok_tablet)
                \/ (HasToken(s, Tok_android) /\ ~HasToken(s, Tok_mobile))
    [] k = 3 -> \E t \in RuleMobile : HasToken(s, t)
    [] k = 4 -> \E t \in RuleBrowser : HasToken(s, t)
    [] k = 5 -> TRUE

RuleCategory == <<"Bot", "Tablet", "Mobile", "Desktop", "Unknown">>

FirstMatchingRule(s) ==
  CHOOSE k \in 1..5 : RuleMatches(k, s) /\ \A j \in 1..(k - 1) : ~RuleMatches(j, s)

\* C2: detect_device_type returns the documented category for each example
\* User-Agent: Googlebot -> bot, iPad -> tablet, Android SM-G973F -> mobile,
\* Android SM-T860 -> tablet, Windows/Chrome -> desktop, empty or absent ->
\* unknown.
C2_Fixtures ==
  pc = "done" =>
    /\ user_agent = Some(UA_Googlebot) => device_type = Some("Bot")
    /\ user_agent = Some(UA_iPad) => device_type = Some("Tablet")
    /\ user_agent = Some(UA_AndroidPhone) => device_type = Some("Mobile")
    /\ user_agent = Some(UA_AndroidTablet) => device_type = Some("Tablet")
    /\ user_agent = Some(UA_WindowsChrome) => device_type = Some("Desktop")
    /\ user_agent = Some(<<>>) => device_type = Some("Unknown")
    /\ user_agent = None => device_type = Some("Unknown")

ProtoIn == headers[X_FORWARDED_PROTO]

\* r is s with every ASCII capital replaced by its small letter
IsLowercaseOf(s, r) ==
  /\ Len(r) = Len(s)
  /\ \A i \in 1..Len(s) :
       r[i] = IF s[i] \in 65..90 THEN s[i] + 32 ELSE s[i]

\* C4: the protocol is the X-Forwarded-Proto value lowercased when the header
\* is present and non-empty, and "https" in every other case, an empty
\* X-Forwarded-Proto included.
C4_ProtoOrDefault ==
  pc = "done" =>
    /\ protocol # None
    /\ IF ProtoIn # None /\ ProtoIn[1] # <<>>
       THEN IsLowercaseOf(ProtoIn[1], protocol[1])
       ELSE protocol[1] = <<104, 116, 116, 112, 115>>

\* ---------------------------------- properties of the request-id reconciler
IsHexDigit(b) == b \in 48..57 \/ b \in 97..102

\* canonical hyphenated form of a UUID
IsUuidText(s) ==
  /\ Len(s) = 36
  /\ \A i \in 1..36 : IF i \in {9, 14, 19, 24} THEN s[i] = 45 ELSE IsHexDigit(s[i])

\* C8 as stated: a call whose X-Request-Id is present and non-empty returns
\* that value; every other call returns a generated identifier, and no two
\* generated identifiers are equal.
C8_ReuseOrFresh ==
  \A i \in 1..Len(calls) :
    LET Reuses(k) == calls[k].header # None /\ calls[k].header[1] # <<>>
    IN  IF Reuses(i) THEN calls[i].id = calls[i].header[1]
        ELSE /\ IsUuidText(calls[i].id)
             /\ \A j \in 1..Len(calls) :
                  (j # i /\ ~Reuses(j)) => calls[j].id # calls[i].id

\* C8 amended: a call whose X-Request-Id is present, non-empty and consists of
\* visible ASCII only returns that value; every other call (header absent,
\* empty or not decodable) returns a generated identifier, and no two
\* generated identifiers are equal.
C8_ReuseDecodableOrFresh ==
  \A i \in 1..Len(calls) :
    LET Reuses(k) == /\ calls[k].header # None
                     /\ calls[k].header[1] # <<>>
                     /\ Decodable(calls[k].header[1])
    IN  IF Reuses(i) THEN calls[i].id = calls[i].header[1]
        ELSE /\ IsUuidText(calls[i].id)
             /\ \A j \in 1..Len(calls) :
                  (j # i /\ ~Reuses(j)) => calls[j].id # calls[i].id

C8_Witness ==
  /\ pc = "done"
  /\ Len(calls) = 2
  /\ calls[1].header = None
  /\ calls[2].header = Some(<<>>)
  /\ calls[1].id # calls[2].id
  /\ request_id = Some(calls[2].id)

\* ------------------------- properties of the context builder and forwarder
AlwaysForwarded ==
  {X_FORWARDED_FOR, X_REAL_IP, X_REQUEST_ID, X_DEVICE_TYPE, X_FORWARDED_PROTO,
   X_GATEWAY_TIMESTAMP}

\* C5: the forwarding headers of a context built by from_request always
\* contain X-Forwarded-For, X-Real-IP, X-Request-Id, X-Device-Type,
\* X-Forwarded-Proto and X-Gateway-Timestamp, and contain X-User-Agent,
\* X-Accept-Language, X-Forwarded-Host exactly when the context's user_agent,
\* accept_language, host are present.
C5_RoundTrip ==
  pc = "forwarded" =>
    /\ \A n \in AlwaysForwarded : forwarding_headers[1][n] # None
    /\ forwarding_headers[1][X_USER_AGENT] # None <=> context[1].user_agent # None
    /\ forwarding_headers[1][X_ACCEPT_LANGUAGE] # None
         <=> context[1].accept_language # None
    /\ forwarding_headers[1][X_FORWARDED_HOST] # None <=> context[1].host # None

C5_Witness ==
  /\ pc = "forwarded"
  /\ headers[USER_AGENT] # None /\ context[1].user_agent = None
  /\ forwarding_headers[1][X_USER_AGENT] = None
  /\ context[1].host # None /\ forwarding_headers[1][X_FORWARDED_HOST] # None
  /\ headers[X_FORWARDED_PROTO] = Some(<<>>)
  /\ forwarding_headers[1][X_FORWARDED_PROTO] # None
  /\ headers[X_REQUEST_ID] = None
  /\ connect_info = None

\* ---------------------------------------------- properties of the lifecycle
\* C6: a readiness probe returns 200 when it reads the flag before the store
\* and 503 when it reads it after the store; the flag a probe reads is never
\* anything but the value before or the value after the transition.
C6_ReadinessFollowsFlag ==
  /\ is_shutting_down <=> sig_pc \in {"sleeping", "returned"}
  /\ \A p \in ProbeTasks :
       /\ probes[p].pc = "loaded" => (probes[p].seen <=> probes[p].after_store)
       /\ probes[p].pc = "responded" =>
            probes[p].status = IF probes[p].after_store THEN 503 ELSE 200

C6_Witness ==
  \E p, q \in ProbeTasks :
    /\ is_shutting_down
    /\ probes[p].pc = "responded" /\ ~probes[p].after_store /\ probes[p].status = 200
    /\ probes[q].pc = "responded" /\ probes[q].after_store /\ probes[q].status = 503

ContextValue(n, ctx) ==
  CASE n = X_FORWARDED_FOR     -> ctx.client_ip
    [] n = X_REAL_IP           -> ctx.client_ip
    [] n = X_REQUEST_ID        -> ctx.request_id
    [] n = X_DEVICE_TYPE       -> as_str(ctx.device_type)
    [] n = X_USER_AGENT        -> ctx.user_agent[1]
    [] n = X_ACCEPT_LANGUAGE   -> ctx.accept_language[1]
    [] n = X_FORWARDED_HOST    -> ctx.host[1]
    [] n = X_FORWARDED_PROTO   -> ctx.protocol
    [] n = X_GATEWAY_TIMESTAMP -> to_decimal(ctx.timestamp)

\* C11: for every forwarding header the gateway produces, the request handed
\* to the next handler carries exactly one value for that name, the value
\* derived from the context, whatever the caller sent under that name.
C11_ForwardedOverwrites ==
  pc = "next" =>
    \A n \in HeaderNames :
      forwarding_headers[1][n] # None =>
        /\ Len(downstream[1][n]) = 1
        /\ downstream[1][n][1] = ContextValue(n, context[1])

C11_Witness ==
  /\ pc = "next"
  /\ Len(headers[X_DEVICE_TYPE]) = 2
  /\ Len(headers[X_FORWARDED_FOR]) = 2
  /\ headers[X_USER_AGENT] = <<SPOOF>>
  /\ headers[USER_AGENT] = <<UA_iPhone>>
  /\ downstream[1][X_DEVICE_TYPE] = <<as_str("Mobile")>>
  /\ downstream[1][X_USER_AGENT] = <<UA_iPhone>>
  /\ downstream[1][X_FORWARDED_FOR] = <<<<49>>>>

\* the forwarding header n has a field value to carry
FieldPresent(n, ctx) ==
  CASE n = X_USER_AGENT      -> ctx.user_agent # None
    [] n = X_ACCEPT_LANGUAGE -> ctx.accept_language # None
    [] n = X_FORWARDED_HOST  -> ctx.host # None
    [] n \in AlwaysForwarded -> TRUE
    [] OTHER                 -> FALSE

\* s is a legal header value: no control character other than tab, no DEL
Encodable(s) == \A i \in 1..Len(s) : s[i] = 9 \/ (s[i] > 31 /\ s[i] # 127)

\* C17: for any context, each header of the fixed set is emitted with its
\* field's value exactly when the field is present and encodable as a header
\* value, whatever the other fields hold; nothing else is emitted; and
\* X-Forwarded-For and X-Real-IP are both present with the value client_ip or
\* both absent.
C17_OmitsOnlyUnencodable ==
  pc = "forwarded" =>
    /\ forwarding_headers # None
    /\ \A n \in HeaderNames :
         IF FieldPresent(n, context[1]) /\ Encodable(ContextValue(n, context[1]))
         THEN forwarding_headers[1][n] = Some(ContextValue(n, context[1]))
         ELSE forwarding_headers[1][n] = None
    /\ \/ /\ forwarding_headers[1][X_FORWARDED_FOR] = Some(context[1].client_ip)
          /\ forwarding_headers[1][X_REAL_IP] = Some(context[1].client_ip)
       \/ /\ forwarding_headers[1][X_FORWARDED_FOR] = None
          /\ forwarding_headers[1][X_REAL_IP] = None

C17_Witness ==
  /\ pc = "forwarded"
  /\ context[1].client_ip = <<195, 169>>
  /\ context[1].request_id = <<10>>
  /\ context[1].user_agent = Some(CTRL)
  /\ context[1].host = Some(<<97>>)
  /\ context[1].protocol = <<127>>
  /\ forwarding_headers[1][X_FORWARDED_FOR] = Some(<<195, 169>>)
  /\ forwarding_headers[1][X_REQUEST_ID] = None
  /\ forwarding_headers[1][X_USER_AGENT] = None
  /\ forwarding_headers[1][X_FORWARDED_HOST] = Some(<<97>>)
  /\ forwarding_headers[1][X_FORWARDED_PROTO] = None
  /\ forwarding_headers[1][X_GATEWAY_TIMESTAMP] # None

\* --------------------------------------------------------- routes/metrics
Handles == 1..NumHandles

InitMetrics ==
  /\ headers = EmptyHeaderMap
  /\ connect_info = None
  /\ user_agent = None
  /\ NoResults
  /\ NoIds
  /\ NoContext
  /\ NoLifecycle
  /\ NoAux
  /\ pc = "input"

set_prometheus_handle_Overwrites(cell, handle) ==
  [cell |-> Some(handle), panicked |-> FALSE]

\* PROMETHEUS_HANDLE.set(handle).expect("Prometheus handle already set"):
\* OnceCell::set stores into an empty cell and returns Err on a full one,
\* which expect turns into a panic
set_prometheus_handle(cell, handle) ==
  IF cell = None
  THEN [cell |-> Some(handle), panicked |-> FALSE]
  ELSE [cell |-> cell, panicked |-> TRUE]

\* PROMETHEUS_HANDLE.get()
get_prometheus_handle(cell) == cell

\* metrics_handler: OK with the rendering, or INTERNAL_SERVER_ERROR
metrics_handler(cell) ==
  IF get_prometheus_handle(cell) # None THEN 200 ELSE 500

\* some caller runs set_prometheus_handle(handle)
SetPrometheusHandle ==
  /\ Len(metrics_log) < MaxEvents
  /\ \E handle \in Handles :
       LET r == set_prometheus_handle(PROMETHEUS_HANDLE, handle)
       IN  /\ PROMETHEUS_HANDLE' = r.cell
           /\ metrics_log' = Append(metrics_log,
                [op |-> "set", handle |-> handle, panicked |-> r.panicked,
                 status |-> 0])
  /\ UNCHANGED <<lifeVars, inVars, outVars, idVars, ctxVars, pc,
                 mwVars, pathVars, serveVars>>

\* GET /metrics is served
MetricsHandler ==
  /\ Len(metrics_log) < MaxEvents
  /\ metrics_log' = Append(metrics_log,
       [op |-> "get", handle |-> 0, panicked |-> FALSE,
        status |-> metrics_handler(PROMETHEUS_HANDLE)])
  /\ UNCHANGED <<lifeVars, inVars, outVars, idVars, ctxVars, pc,
                 mwVars, pathVars, serveVars, PROMETHEUS_HANDLE>>

NextMetrics == SetPrometheusHandle \/ MetricsHandler

SpecMetrics == InitMetrics /\ [][NextMetrics]_vars

\* C14 as amended: shutdown_signal sets the flag before it starts the grace
\* wait and returns only after the full grace duration has elapsed since the
\* store, so whenever the server has been told to stop the flag is true; and
\* every readiness probe that loads the flag once the grace wait has started
\* returns 503.
C14_StoreBeforeGrace ==
  /\ sig_pc \in {"sleeping", "returned"} => is_shutting_down
  /\ sig_pc = "returned" => elapsed = shutdown_timeout_secs
  /\ \A p \in ProbeTasks :
       (probes[p].pc = "responded" /\ probes[p].after_store)
         => probes[p].status = 503

\* C14 as stated: the same ordering, and every readiness probe answered
\* during the grace window returns 503.
C14_AnsweredInWindow ==
  /\ sig_pc \in {"sleeping", "returned"} => is_shutting_down
  /\ sig_pc = "returned" => elapsed = shutdown_timeout_secs
  /\ \A p \in ProbeTasks :
       (probes[p].pc = "responded" /\ probes[p].answered_in = "sleeping")
         => probes[p].status = 503

C14_Witness ==
  \E p \in ProbeTasks :
    /\ sig_pc = "returned"
    /\ elapsed = shutdown_timeout_secs
    /\ probes[p].pc = "responded" /\ probes[p].after_store
    /\ probes[p].answered_in = "sleeping" /\ probes[p].status = 503

\* C15: the flag is written at most once per process lifetime, by
\* shutdown_signal storing true, whatever signals arrive and however often;
\* no other step changes it, and readiness probes only read it.
C15_SingleWriter ==
  /\ [](/\ Len(writes) <= 1
        /\ \A i \in 1..Len(writes) :
             writes[i] = [writer |-> "shutdown_signal", value |-> TRUE]
        /\ is_shutting_down = (writes # <<>>))
  /\ [][/\ is_shutting_down' # is_shutting_down => Len(writes') = Len(writes) + 1
        /\ \A p \in ProbeTasks :
             probes'[p] # probes[p] =>
               (is_shutting_down' = is_shutting_down /\ writes' = writes)]_vars

C15_Witness ==
  /\ signals = MaxSignals
  /\ Len(writes) = 1
  /\ is_shutting_down
  /\ \A p \in ProbeTasks : probes[p].pc = "responded"
  /\ \E p, q \in ProbeTasks :
       probes[p].status = 200 /\ probes[q].status = 503

\* --------------------------------------------- observability/metrics
ID == <<58, 105, 100>>  \* ":id"

is_digit(b) == b >= 48 /\ b <= 57

\* the class [0-9a-f]
is_lower_hex(b) == is_digit(b) \/ (b >= 97 /\ b <= 102)

\* [0-9a-f]{8}-[0-9a-f]{4}-[0-9a-f]{4}-[0-9a-f]{4}-[0-9a-f]{12} matches at i
uuid_match_at(s, i) ==
  /\ i + 35 <= Len(s)
  /\ \A k \in 0..35 :
       IF k \in {8, 13, 18, 23} THEN s[i + k] = 45 ELSE is_lower_hex(s[i + k])

\* uuid_regex.replace_all(s, ":id"), scanning from position i: leftmost
\* matches, each search resuming where the previous match ended
RECURSIVE replace_uuid(_, _)
replace_uuid(s, i) ==
  IF i > Len(s) THEN <<>>
  ELSE IF uuid_match_at(s, i) THEN ID \o replace_uuid(s, i + 36)
  ELSE <<s[i]>> \o replace_uuid(s, i + 1)

\* the last position of the run of digits that starts at i
RECURSIVE digits_end(_, _)
digits_end(s, i) ==
  IF i < Len(s) /\ is_digit(s[i + 1]) THEN digits_end(s, i + 1) ELSE i

\* /\d+(/|$) matches at i
numeric_match_at(s, i) ==
  /\ s[i] = 47
  /\ i < Len(s)
  /\ is_digit(s[i + 1])
  /\ LET e == digits_end(s, i + 1)
     IN  e = Len(s) \/ s[e + 1] = 47

\* numeric_regex.replace_all(s, "/:id$1"), scanning from position i: a match
\* includes the "/" that ends it, which is put back by $1, and the next
\* search starts after that "/"
RECURSIVE replace_numeric(_, _)
replace_numeric(s, i) ==
  IF i > Len(s) THEN <<>>
  ELSE IF numeric_match_at(s, i)
       THEN LET e == digits_end(s, i + 1)
            IN  IF e = Len(s)
                THEN <<47>> \o ID
                ELSE <<47>> \o ID \o <<47>> \o replace_numeric(s, e + 2)
       ELSE <<s[i]>> \o replace_numeric(s, i + 1)

\* fn normalize_path(path: &str) -> String
normalize_path(p) == replace_numeric(replace_uuid(p, 1), 1)

PathAlphabet == {47, 49, 97}   \* '/'  '1'  'a'

\* the paths of the unit tests
PATH_Uuid ==
  <<47, 97, 112, 105, 47, 118, 49, 47, 117, 115, 101, 114, 115, 47, 
    53, 53, 48, 101, 56, 52, 48, 48, 45, 101, 50, 57, 98, 45, 52, 49, 
    100, 52, 45, 97, 55, 49, 54, 45, 52, 52, 54, 54, 53, 53, 52, 52, 
    48, 48, 48, 48>>

PATH_Numeric ==
  <<47, 97, 112, 105, 47, 118, 49, 47, 112, 111, 115, 116, 115, 47, 
    49, 50, 51, 47, 99, 111, 109, 109, 101, 110, 116, 115>>

\* three adjacent numeric segments
PATH_Adjacent == <<47, 49, 47, 50, 47, 51>>  \* "/1/2/3"

Paths ==
  {<<47>> \o t : t \in StrUpTo(PathAlphabet, MaxPathLen)}
    \cup {PATH_Uuid, PATH_Numeric, PATH_Adjacent,
          PATH_Uuid \o <<47, 49>> \o PATH_Numeric}

InitPath ==
  /\ headers = EmptyHeaderMap
  /\ connect_info = None
  /\ user_agent = None
  /\ NoResults
  /\ NoIds
  /\ NoContext
  /\ NoLifecycle
  /\ downstream = None
  /\ PROMETHEUS_HANDLE = None
  /\ metrics_log = <<>>
  /\ inflight = [t \in RequestTasks |-> IdleRequest]
  /\ path \in Paths
  /\ normalized = None
  /\ renormalized = None
  /\ pc = "input"

\* record_request computes the path label
CallNormalizePath ==
  /\ pc = "input"
  /\ normalized' = Some(normalize_path(path))
  /\ pc' = "normalized"
  /\ UNCHANGED <<inVars, outVars, idVars, ctxVars, lifeVars, mwVars,
                 metricsVars, serveVars, path, renormalized>>

\* normalize_path is handed a path that is already a label
CallNormalizePathAgain ==
  /\ pc = "normalized"
  /\ renormalized' = Some(normalize_path(normalized[1]))
  /\ pc' = "renormalized"
  /\ UNCHANGED <<inVars, outVars, idVars, ctxVars, lifeVars, mwVars,
                 metricsVars, serveVars, path, normalized>>

NextPath == CallNormalizePath \/ CallNormalizePathAgain

SpecPath == InitPath /\ [][NextPath]_vars

\* ------------------------------------------- properties of request serving
\* C12: the liveness probe (GET /health/live) and the general health check
\* (GET /health) answer 200 in every lifecycle state, serving and draining
\* alike; of the health routes only the readiness probe's status follows the
\* draining flag.
C12_LivenessUnaffected ==
  \A t \in RequestTasks :
    inflight[t].pc = "done" =>
      /\ inflight[t].route \in {"/health", "/health/live"} => inflight[t].status = 200
      /\ inflight[t].route = "/health/ready" =>
           inflight[t].status = IF inflight[t].finished_in = "serving" THEN 200 ELSE 503

C12_Witness ==
  \E t, u \in RequestTasks :
    /\ is_shutting_down
    /\ inflight[t].pc = "done" /\ inflight[t].route = "/health/live"
    /\ inflight[t].finished_in = "draining" /\ inflight[t].status = 200
    /\ inflight[u].pc = "done" /\ inflight[u].route = "/health/ready"
    /\ inflight[u].finished_in = "draining" /\ inflight[u].status = 503

\* C18: beginning to drain does not cancel or alter in-flight work: the step
\* that sets the flag changes nothing but the flag and the position of
\* shutdown_signal, every running request keeps running until its own handler
\* answers, and a request of a route other than the readiness probe that was
\* in flight (or arrived) during the grace window receives its normal 200.
C18_DrainKeepsInflight ==
  [][/\ is_shutting_down' # is_shutting_down =>
          UNCHANGED <<signals, probes, returned_503, reqVars>>
     /\ \A t \in RequestTasks :
          inflight[t].pc = "running" =>
            /\ inflight'[t].pc \in {"running", "done"}
            /\ inflight'[t].route = inflight[t].route
            /\ (inflight'[t].pc = "done" /\ inflight[t].route # "/health/ready")
                 => inflight'[t].status = 200
            /\ inflight'[t].pc = "done" =>
                 inflight'[t].finished_in = lifecycle_state]_vars

C18_Witness ==
  \E t, u \in RequestTasks :
    /\ inflight[t].pc = "done" /\ inflight[t].route = "/health"
    /\ inflight[t].accepted_in = "serving" /\ inflight[t].finished_in = "draining"
    /\ inflight[t].status = 200
    /\ inflight[u].pc = "done" /\ inflight[u].route = "/health/live"
    /\ inflight[u].accepted_in = "draining" /\ inflight[u].finished_in = "draining"
    /\ inflight[u].status = 200

\* ------------------------------------------- properties of routes/metrics
\* positions of the set_prometheus_handle calls in the history
SetCalls == {i \in 1..Len(metrics_log) : metrics_log[i].op = "set"}

\* C13: GET /metrics returns 500 exactly when no set_prometheus_handle call
\* came before it and 200 otherwise; the first set call succeeds, every later
\* one panics and leaves the first handle in the cell.
C13_SetOnce ==
  /\ \A i \in 1..Len(metrics_log) :
       /\ metrics_log[i].op = "get" =>
            /\ metrics_log[i].status \in {200, 500}
            /\ metrics_log[i].status = 500 <=> ~(\E j \in SetCalls : j < i)
       /\ metrics_log[i].op = "set" =>
            (metrics_log[i].panicked <=> \E j \in SetCalls : j < i)
  /\ PROMETHEUS_HANDLE =
       IF SetCalls = {} THEN None
       ELSE Some(metrics_log[CHOOSE i \in SetCalls :
                               \A j \in SetCalls : i <= j].handle)

C13_Witness ==
  /\ Len(metrics_log) = 4
  /\ metrics_log[1].op = "get" /\ metrics_log[1].status = 500
  /\ metrics_log[2].op = "set" /\ ~metrics_log[2].panicked
  /\ metrics_log[3].op = "set" /\ metrics_log[3].panicked
  /\ metrics_log[3].handle # metrics_log[2].handle
  /\ metrics_log[4].op = "get" /\ metrics_log[4].status = 200
  /\ PROMETHEUS_HANDLE = Some(metrics_log[2].handle)

\* ------------------------------------------ properties of normalize_path
\* the last position of the path segment that starts at i
RECURSIVE segment_end(_, _)
segment_end(s, i) ==
  IF i <= Len(s) /\ s[i] # 47 THEN segment_end(s, i + 1) ELSE i - 1

IsNumericSegment(seg) == seg # <<>> /\ \A k \in 1..Len(seg) : is_digit(seg[k])

IsUuidSegment(seg) == Len(seg) = 36 /\ uuid_match_at(seg, 1)

\* the path with each numeric or UUID-like segment replaced by ":id", from
\* the segment that starts at i on
RECURSIVE SegmentsReplaced(_, _)
SegmentsReplaced(s, i) ==
  LET e   == segment_end(s, i)
      seg == SubSeq(s, i, e)
      out == IF IsNumericSegment(seg) \/ IsUuidSegment(seg) THEN ID ELSE seg
  IN  IF e >= Len(s) THEN out ELSE out \o <<47>> \o SegmentsReplaced(s, e + 2)

\* C20: normalize_path replaces every path segment that is a numeric id and
\* every UUID-like segment with ":id", for every path, adjacent numeric
\* segments included; normalizing an already-normalized path changes nothing.
C20_EverySegmentReplaced ==
  /\ pc \in {"normalized", "renormalized"} =>
       normalized = Some(SegmentsReplaced(path, 1))
  /\ pc = "renormalized" => renormalized = normalized

\* ----------------------------- properties of the middleware, trust boundary
\* C21: the request passed downstream carries X-User-Agent, X-Accept-Language
\* and X-Forwarded-Host only when the context's user_agent, accept_language
\* and host are respectively present; a value the caller supplied under one of
\* these names does not reach downstream when the inbound User-Agent,
\* Accept-Language or Host header is absent.
C21_OptionalNotSpoofable ==
  pc = "next" =>
    /\ downstream[1][X_USER_AGENT] # None => context[1].user_agent # None
    /\ downstream[1][X_ACCEPT_LANGUAGE] # None => context[1].accept_language # None
    /\ downstream[1][X_FORWARDED_HOST] # None => context[1].host # None
    /\ headers[USER_AGENT] = None => downstream[1][X_USER_AGENT] = None
    /\ headers[ACCEPT_LANGUAGE] = None => downstream[1][X_ACCEPT_LANGUAGE] = None
    /\ headers[HOST] = None => downstream[1][X_FORWARDED_HOST] = None

====
